---- MODULE Spec2Model ----
(***************************************************************************)
(* IDBService (src/src/idb.service.ts): a promise adapter over IndexedDB.  *)
(*                                                                         *)
(* One service instance is modelled together with the engine it talks to.  *)
(* An engine event (open request, transaction request, transaction) is one *)
(* action: the event handler the service bound plus every promise reaction *)
(* it triggers, since the microtask queue is drained before the next event *)
(* is dispatched.  Public operations are issued one after another on the   *)
(* same instance; the service keeps no state between them.                 *)
(***************************************************************************)
EXTENDS Integers, Sequences, FiniteSets, TLC

\* Bounds of the model.
MaxKey == 2
MaxBlocked == 2
MaxCalls == 2

Keys == 1 .. MaxKey
IdxVals == {1, 2}
Versions == {0, 1, 2}

(***************************************************************************)
(* JavaScript values that travel through promises.                         *)
(***************************************************************************)
Undefined == [t |-> "undefined"]
Obj(r) == [t |-> "object", o |-> r]
Arr(s) == [t |-> "array", a |-> s]
Evt(k) == [t |-> "event", type |-> k]
Err(m) == [t |-> "error", msg |-> m]
Db == [t |-> "IDBDatabase"]

\* cast<T>(param): returns its argument.
cast(v) == v

(***************************************************************************)
(* Promises: pending until the first resolve or reject, then frozen.       *)
(***************************************************************************)
Pending == [st |-> "pending", val |-> Undefined]
Resolved(v) == [st |-> "resolved", val |-> v]
Rejected(v) == [st |-> "rejected", val |-> v]
PResolve(p, v) == IF p.st = "pending" THEN Resolved(v) ELSE p
PReject(p, v) == IF p.st = "pending" THEN Rejected(v) ELSE p

(***************************************************************************)
(* Records of the object store: key path "id", one index on "idx".         *)
(***************************************************************************)
Rec(k, i, v) == [id |-> k, idx |-> i, val |-> v]
Records == {Rec(k, i, v) : k \in Keys, i \in IdxVals, v \in {0, 1}}
Ids(S) == {r.id : r \in S}
Stores == {S \in SUBSET {Rec(k, i, 0) : k \in Keys, i \in IdxVals} :
              Cardinality(Ids(S)) = Cardinality(S)}

VARIABLES
    cfg,          \* idbServiceConfig after the constructor ran
    dbVersion,    \* engine: stored version of the database (0: none)
    hasStore,     \* engine: the schema (store and index) exists
    objectStore,  \* engine: records of the object store
    handles,      \* engine: connections this instance opened and never closed
    openCalls,    \* number of indexedDB.open calls of the instance
    nCalls,       \* number of public operations issued
    call,         \* the operation in flight and its arguments
    open,         \* the open request of the call and what happened on it
    initPromise,  \* the promise _init_ returned
    trans,        \* the transaction of the call
    reqs,         \* requests placed on the transaction, not yet done
    res,          \* the array a cursor loop fills
    promiseA,
    promiseB,
    inner,        \* promises of the put / add requests
    armed,        \* Promise.all(promises).then(...) was registered
    result,       \* the promise the public operation returned
    errorFired    \* the engine fired an error event during the call

vars == <<cfg, dbVersion, hasStore, objectStore, handles, openCalls, nCalls,
          call, open, initPromise, trans, reqs, res, promiseA, promiseB,
          inner, armed, result, errorFired>>

engineVars == <<dbVersion, hasStore, objectStore>>
promiseVars == <<res, promiseA, promiseB, inner, armed, result>>

(***************************************************************************)
(* The engine's object store: what each request does to the records.       *)
(***************************************************************************)
InRange(S, range) == {r \in S : r.id \in range}
WithIndex(S, idxRange) == {r \in S : r.idx \in idxRange}

\* Position of a record in key order, and in index order (index value, then key).
Rank(r, byIndex) == IF byIndex THEN r.idx * (MaxKey + 2) + r.id ELSE r.id

RECURSIVE Ascending(_, _)
Ascending(S, byIndex) ==
    IF S = {} THEN <<>>
    ELSE LET m == CHOOSE r \in S : \A q \in S : Rank(r, byIndex) <= Rank(q, byIndex)
         IN  <<m>> \o Ascending(S \ {m}, byIndex)

Reverse(s) == [i \in 1 .. Len(s) |-> s[Len(s) + 1 - i]]

\* The records a cursor visits, in the order it visits them.
CursorOrder(S, direction, byIndex) ==
    IF direction = "prev" THEN Reverse(Ascending(S, byIndex))
    ELSE Ascending(S, byIndex)

\* IDBObjectStore.get / IDBIndex.get: the first match, or undefined.
FirstOf(S, byIndex) ==
    IF S = {} THEN Undefined ELSE Obj(Ascending(S, byIndex)[1])

StorePut(S, r) == {x \in S : x.id # r.id} \cup {r}
StoreDelete(S, range) == {x \in S : x.id \notin range}

(***************************************************************************)
(* Arguments of the public operations.                                     *)
(***************************************************************************)
KeyRanges == {lo .. hi : lo \in Keys, hi \in Keys} \ {{}}
IdxRanges == {IdxVals} \cup {{i} : i \in IdxVals}
ParamLists == { <<>>,
                <<[name |-> "val", value |-> 1]>>,
                <<[name |-> "idx", value |-> 2], [name |-> "val", value |-> 1]>> }
NewRecs == {Rec(k, 1, 1) : k \in Keys}
DataArrays == {<<>>} \cup {<<r>> : r \in NewRecs}
                 \cup {<<r, q>> : r \in NewRecs, q \in NewRecs}

NoCall == [op |-> "none", range |-> {}, keyGiven |-> TRUE, reverse |-> FALSE,
           idxRange |-> {}, indexGiven |-> TRUE, indexVal |-> 1, params |-> <<>>,
           allMatches |-> FALSE, value |-> Rec(1, 1, 1), data |-> <<>>]

OpCall(name) == [NoCall EXCEPT !.op = name]

CallsOf(name) ==
    CASE name = "getObjectByKey" ->
           {[OpCall(name) EXCEPT !.range = kr] : kr \in KeyRanges}
      [] name = "getObjects" ->
           {[OpCall(name) EXCEPT !.range = kr, !.reverse = rv] :
               kr \in KeyRanges, rv \in BOOLEAN}
      [] name = "getObjectsByIndex" ->
           {[OpCall(name) EXCEPT !.idxRange = ir, !.reverse = rv] :
               ir \in IdxRanges, rv \in BOOLEAN}
      [] name = "removeObjectsByKey" ->
           {[OpCall(name) EXCEPT !.range = kr] : kr \in KeyRanges}
      [] name = "replaceObjectByKey" ->
           {[OpCall(name) EXCEPT !.range = {k}, !.value = v] :
               k \in Keys, v \in NewRecs}
           \cup {[OpCall(name) EXCEPT !.keyGiven = FALSE, !.value = v] : v \in NewRecs}
      [] name = "updateObjectsByIndex" ->
           {[OpCall(name) EXCEPT !.indexVal = iv, !.params = ps, !.allMatches = am] :
               iv \in IdxVals, ps \in ParamLists, am \in BOOLEAN}
           \cup {[OpCall(name) EXCEPT !.indexGiven = FALSE,
                                      !.params = <<[name |-> "val", value |-> 1]>>]}
      [] name = "storeObjects" ->
           {[OpCall(name) EXCEPT !.data = d] : d \in DataArrays}
      [] name = "clearStore" -> {OpCall(name)}

PublicOps == {"getObjectByKey", "getObjects", "getObjectsByIndex",
              "removeObjectsByKey", "replaceObjectByKey", "updateObjectsByIndex",
              "storeObjects", "clearStore"}

Calls == UNION {CallsOf(name) : name \in PublicOps}

(***************************************************************************)
(* constructor: the callbacks the instance will use.                       *)
(***************************************************************************)
\* What onVersionChange(db) can return: the constructor's default returns
\* true, a configured callback returns what it likes.
OnVersionChangeReturnsFalse(c) ==
    IF c.onVersionChange = "default" THEN {FALSE} ELSE BOOLEAN
OnVersionChangeReturns(c) ==
    IF c.onVersionChange = "default" THEN {TRUE} ELSE BOOLEAN

Configs == [version : Versions,
            onVersionChange : {"default", "user"},
            onBlocked : {"noop", "user"}]

NoOpen == [req |-> "none", needUpgrade |-> FALSE, oldVersion |-> 0,
           oldHasStore |-> FALSE, blockedEvents |-> 0, blockedCalls |-> 0,
           userBlocked |-> 0, upgradeEvents |-> 0, vcCalls |-> 0, vcRet |-> FALSE,
           upgradeCalls |-> 0, successEvents |-> 0, errorEvents |-> 0]

NoTrans == [state |-> "none", mode |-> "none", started |-> 0, db |-> 0, snapshot |-> {}]

Init ==
    /\ cfg \in Configs
    /\ dbVersion \in Versions
    /\ hasStore = (dbVersion > 0)
    /\ objectStore \in (IF dbVersion > 0 THEN Stores ELSE {{}})
    /\ handles = 0
    /\ openCalls = 0
    /\ nCalls = 0
    /\ call = NoCall
    /\ open = NoOpen
    /\ initPromise = Pending
    /\ trans = NoTrans
    /\ reqs = <<>>
    /\ res = <<>>
    /\ promiseA = Pending
    /\ promiseB = Pending
    /\ inner = <<>>
    /\ armed = FALSE
    /\ result = Pending
    /\ errorFired = FALSE

(***************************************************************************)
(* _init_: the synchronous part.                                           *)
(***************************************************************************)
\* The request indexedDB.open returned, or the rejection _init_ returns
\* when there is no indexedDB or open throws (version zero or negative).
InitStart(version, idbAvailable) ==
    IF ~idbAvailable
    THEN [req |-> "none", promise |-> Rejected(Err("Browser kit does not support indexedDB"))]
    ELSE IF version <= 0
    THEN [req |-> "none", promise |-> Rejected(Err("ERROR: TypeError"))]
    ELSE [req |-> "pending", promise |-> Pending]

\* The argument checks a public operation makes before it asks for a transaction.
ArgError(c) ==
    CASE c.op = "replaceObjectByKey" /\ ~c.keyGiven -> TRUE
      [] c.op = "updateObjectsByIndex" /\ (Len(c.params) = 0 \/ ~c.indexGiven) -> TRUE
      [] OTHER -> FALSE

Quiescent ==
    /\ open.req # "pending"
    /\ trans.state \notin {"active", "aborting"}

\* A public operation is called: argument checks, then getTransaction -> _init_.
Call(c, idbAvailable) ==
    /\ nCalls < MaxCalls
    /\ Quiescent
    /\ nCalls' = nCalls + 1
    /\ call' = c
    /\ trans' = NoTrans
    /\ reqs' = <<>>
    /\ res' = <<>>
    /\ promiseA' = Pending
    /\ promiseB' = Pending
    /\ inner' = <<>>
    /\ armed' = FALSE
    /\ errorFired' = FALSE
    /\ IF ArgError(c)
       THEN /\ result' = Rejected(Err("needs argument"))
            /\ open' = NoOpen
            /\ initPromise' = Pending
            /\ openCalls' = openCalls
       ELSE LET i == InitStart(cfg.version, idbAvailable)
            IN  /\ initPromise' = i.promise
                /\ result' = i.promise
                /\ open' = [NoOpen EXCEPT !.req = i.req,
                                          !.needUpgrade = (cfg.version > dbVersion),
                                          !.oldVersion = dbVersion,
                                          !.oldHasStore = hasStore]
                /\ openCalls' = IF i.req = "pending" THEN openCalls + 1 ELSE openCalls
    /\ UNCHANGED <<cfg, engineVars, handles>>

(***************************************************************************)
(* Requests on the transaction, and what the engine does for each.         *)
(***************************************************************************)
Req(kind) ==
    [kind |-> kind, range |-> {}, rec |-> Rec(1, 1, 1), i |-> 0, todo |-> <<>>, tx |-> 0]

\* trans.objectStore(store).<operation>(...): the requests rs are placed on
\* transaction t, the t.started-th transaction of the call.
PlaceElsewhere(t, rs) == [k \in 1 .. Len(rs) |-> [rs[k] EXCEPT !.tx = t.started + 1]]
Place(t, rs) == [k \in 1 .. Len(rs) |-> [rs[k] EXCEPT !.tx = t.started]]

\* getObjects: openCursor(keyRange, reverse ? undefined : "prev"); an
\* undefined direction is the engine's default, "next".
GetObjectsDirection(reverse) == IF reverse THEN "next" ELSE "prev"

\* getObjectsByIndex: openCursor(range, reverse ? "prev" : undefined)
GetObjectsByIndexDirectionSwapped(reverse) == IF reverse THEN "next" ELSE "prev"
GetObjectsByIndexDirection(reverse) == IF reverse THEN "prev" ELSE "next"

TransactionMode(c) ==
    IF c.op \in {"getObjectByKey", "getObjects", "getObjectsByIndex"}
    THEN "readonly" ELSE "readwrite"

\* The requests a public operation places as soon as it has its transaction.
FirstRequests(c, S) ==
    CASE c.op = "getObjectByKey" -> <<[Req("get") EXCEPT !.range = c.range]>>
      [] c.op = "getObjects" ->
           <<[Req("cursor") EXCEPT !.todo =
                CursorOrder(InRange(S, c.range), GetObjectsDirection(c.reverse), FALSE)]>>
      [] c.op = "getObjectsByIndex" ->
           <<[Req("indexCursor") EXCEPT !.todo =
                CursorOrder(WithIndex(S, c.idxRange),
                            GetObjectsByIndexDirection(c.reverse), TRUE)]>>
      [] c.op = "removeObjectsByKey" -> <<[Req("delete") EXCEPT !.range = c.range]>>
      [] c.op = "replaceObjectByKey" -> <<[Req("replaceDelete") EXCEPT !.range = c.range]>>
      [] c.op = "updateObjectsByIndex" ->
           IF c.allMatches
           THEN <<[Req("updateCursor") EXCEPT !.todo =
                     CursorOrder(WithIndex(S, {c.indexVal}), "next", TRUE)]>>
           ELSE <<[Req("updateGet") EXCEPT !.range = {c.indexVal}]>>
      [] c.op = "storeObjects" ->
           [k \in 1 .. Len(c.data) |-> [Req("storeAdd") EXCEPT !.rec = c.data[k], !.i = k]]
      [] c.op = "clearStore" -> <<Req("clear")>>

AddKinds == {"replaceAdd", "storeAdd"}

\* add() of a key that is already stored fails with a ConstraintError.
CanSucceed(S, r) == r.kind \in AddKinds => r.rec.id \notin Ids(S)

\* The store after request r succeeded.
EngineExec(S, r) ==
    CASE r.kind \in {"delete", "replaceDelete"} -> StoreDelete(S, r.range)
      [] r.kind \in AddKinds -> S \cup {r.rec}
      [] r.kind = "updatePut" -> StorePut(S, r.rec)
      [] r.kind = "clear" -> {}
      [] OTHER -> S

\* request.result as the success handler sees it (a finished cursor: null).
RequestResult(S, r) ==
    CASE r.kind = "get" -> FirstOf(InRange(S, r.range), FALSE)
      [] r.kind = "updateGet" -> FirstOf(WithIndex(S, r.range), TRUE)
      [] r.kind \in {"cursor", "indexCursor", "updateCursor"} ->
           IF r.todo = <<>> THEN Undefined ELSE Obj(Head(r.todo))
      [] OTHER -> Undefined

(***************************************************************************)
(* The handlers the operations bind.  They act on the promise state of the *)
(* call, j; j.placed are the requests a handler places, j.threw says that  *)
(* it threw.                                                               *)
(***************************************************************************)
ErrorEvent == Evt("error")

RECURSIVE ApplyParams(_, _)
\* params.forEach(param => oldValue[param.name] = param.value)
ApplyParams(r, ps) ==
    IF ps = <<>> THEN r
    ELSE ApplyParams([r EXCEPT ![Head(ps).name] = Head(ps).value], Tail(ps))

\* updateOne(oldValue): sets the properties, puts the value, returns a promise.
UpdateOne(j, c, v) ==
    IF v = Undefined
    THEN [j EXCEPT !.threw = TRUE]
    ELSE [j EXCEPT !.inner = Append(@, Pending),
                   !.placed = <<[Req("updatePut") EXCEPT
                                    !.rec = ApplyParams(v.o, c.params),
                                    !.i = Len(j.inner) + 1]>>]

AllResolved(ps) == \A k \in 1 .. Len(ps) : ps[k].st = "resolved"
AnyRejected(ps) == \E k \in 1 .. Len(ps) : ps[k].st = "rejected"
FirstRejected(ps) == ps[CHOOSE k \in 1 .. Len(ps) : ps[k].st = "rejected"]
ValuesOf(ps) == Arr([k \in 1 .. Len(ps) |-> ps[k].val])

\* Promise.all(ps) feeding promise p.
PAll(p, ps) ==
    IF AnyRejected(ps) THEN PReject(p, FirstRejected(ps).val)
    ELSE IF AllResolved(ps) THEN PResolve(p, ValuesOf(ps))
    ELSE p

\* Promise.all([promiseA, promiseB]).then(values => ...): the projection of
\* updateObjectsByIndex is [values[0]], that of storeObjects values[0].
ProjectionWrapped(c, a) == Arr(<<a>>)
Projection(c, a) == IF c.op = "updateObjectsByIndex" THEN Arr(<<a>>) ELSE a

PAllThen(p, c, a, b) ==
    IF AnyRejected(<<a, b>>) THEN PReject(p, FirstRejected(<<a, b>>).val)
    ELSE IF AllResolved(<<a, b>>) THEN PResolve(p, Projection(c, a.val))
    ELSE p

\* The promise reactions that run once a handler returned.
Settle(j, c) ==
    CASE c.op = "updateObjectsByIndex" ->
           LET a == IF c.allMatches
                    THEN \* Promise.all(promises).then(values => resolve(values))
                         IF j.armed /\ AllResolved(j.inner)
                         THEN PResolve(j.promiseA, ValuesOf(j.inner))
                         ELSE j.promiseA
                    ELSE \* updateOne(value).then(newValue => resolve(newValue))
                         IF Len(j.inner) > 0 /\ j.inner[1].st = "resolved"
                         THEN PResolve(j.promiseA, j.inner[1].val)
                         ELSE j.promiseA
           IN  [j EXCEPT !.promiseA = a,
                         !.result = PAllThen(@, c, a, j.promiseB)]
      [] c.op = "storeObjects" ->
           LET b == PAll(j.promiseB, j.inner)
           IN  [j EXCEPT !.promiseB = b,
                         !.result = PAllThen(@, c, j.promiseA, b)]
      [] OTHER -> j

\* request.onsuccess, with v the request's result.
OnRequestSuccess(j, c, r, v) ==
    CASE r.kind = "get" -> [j EXCEPT !.result = PResolve(@, cast(v))]
      [] r.kind \in {"cursor", "indexCursor"} ->
           IF v # Undefined
           THEN [j EXCEPT !.res = Append(@, cast(v)),
                          !.placed = <<[r EXCEPT !.todo = Tail(@)]>>]
           ELSE [j EXCEPT !.result = PResolve(@, Arr(j.res))]
      [] r.kind = "replaceDelete" ->
           [j EXCEPT !.placed = <<[Req("replaceAdd") EXCEPT !.rec = c.value]>>]
      [] r.kind = "updateGet" -> UpdateOne(j, c, v)
      [] r.kind = "updateCursor" ->
           IF v # Undefined THEN UpdateOne(j, c, v) ELSE [j EXCEPT !.armed = TRUE]
      [] r.kind = "updatePut" -> [j EXCEPT !.inner[r.i] = PResolve(@, Obj(r.rec))]
      [] r.kind = "storeAdd" -> [j EXCEPT !.inner[r.i] = PResolve(@, Undefined)]
      [] OTHER -> j

\* request.onerror, where the operation binds one.
OnRequestError(j, c, r) ==
    CASE r.kind \in {"get", "cursor"} -> [j EXCEPT !.result = PReject(@, ErrorEvent)]
      [] r.kind \in {"updatePut", "storeAdd"} ->
           [j EXCEPT !.inner[r.i] = PReject(@, ErrorEvent)]
      [] OTHER -> j

\* trans.onerror, where the operation binds one: the error event bubbles to it.
OnTransError(j, c) ==
    CASE c.op \in {"getObjectsByIndex", "removeObjectsByKey", "clearStore"} ->
           [j EXCEPT !.result = PReject(@, ErrorEvent)]
      [] c.op = "replaceObjectByKey" -> [j EXCEPT !.result = PReject(@, Undefined)]
      [] c.op = "storeObjects" -> [j EXCEPT !.promiseA = PReject(@, ErrorEvent)]
      [] OTHER -> j

\* trans.oncomplete, where the operation binds one.
OnTransComplete(j, c) ==
    CASE c.op \in {"removeObjectsByKey", "clearStore"} ->
           [j EXCEPT !.result = PResolve(@, Undefined)]
      [] c.op = "replaceObjectByKey" -> [j EXCEPT !.result = PResolve(@, Obj(c.value))]
      [] c.op = "updateObjectsByIndex" -> [j EXCEPT !.promiseB = PResolve(@, Undefined)]
      [] c.op = "storeObjects" ->
           [j EXCEPT !.promiseA =
               PResolve(@, Arr([k \in 1 .. Len(c.data) |-> Obj(c.data[k])]))]
      [] OTHER -> j

\* An error event at a request of the transaction: the request's handler,
\* the reactions, the transaction's handler, the reactions.
OnErrorEventIgnored(j, c, r) == j
OnErrorEvent(j, c, r) == Settle(OnTransError(Settle(OnRequestError(j, c, r), c), c), c)

Js == [res |-> res, promiseA |-> promiseA, promiseB |-> promiseB, inner |-> inner,
       armed |-> armed, result |-> result, placed |-> <<>>, threw |-> FALSE]

SetJs(j) ==
    /\ res' = j.res
    /\ promiseA' = j.promiseA
    /\ promiseB' = j.promiseB
    /\ inner' = j.inner
    /\ armed' = j.armed
    /\ result' = j.result

(***************************************************************************)
(* _init_: the handlers of the open request.                               *)
(***************************************************************************)
\* request.onblocked = () => { this.onblocked(); }
OnBlockedSkipped(o, c) == o
OnBlocked(o, c) ==
    [o EXCEPT !.blockedCalls = @ + 1,
              !.userBlocked = IF c.onBlocked = "user" THEN @ + 1 ELSE @]

\* request.onupgradeneeded: onUpgradeNeeded(db) if onVersionChange(db), which
\* returned ret.
OnUpgradeNeededAlways(o, ret) ==
    [o EXCEPT !.vcCalls = @ + 1, !.vcRet = ret, !.upgradeCalls = @ + 1]
OnUpgradeNeeded(o, ret) ==
    [o EXCEPT !.vcCalls = @ + 1, !.vcRet = ret,
              !.upgradeCalls = IF ret THEN @ + 1 ELSE @]

\* request.onsuccess = (evt) => { resolve(db) }
OnOpenSuccess(p) == PResolve(p, Db)

\* request.onerror = (evt) => { reject(evt) }
OnOpenErrorUnbound(p) == p
OnOpenError(p) == PReject(p, ErrorEvent)

RequestOnBlocked ==
    /\ open.req = "pending"
    /\ open.needUpgrade
    /\ open.upgradeEvents = 0
    /\ open.blockedEvents < MaxBlocked
    /\ open' = [OnBlocked(open, cfg) EXCEPT !.blockedEvents = @ + 1]
    /\ UNCHANGED <<cfg, engineVars, handles, openCalls, nCalls, call, initPromise,
                   trans, reqs, promiseVars, errorFired>>

RequestOnUpgradeNeeded(ret) ==
    /\ open.req = "pending"
    /\ open.needUpgrade
    /\ open.upgradeEvents = 0
    /\ LET o == OnUpgradeNeeded(open, ret)
       IN  /\ open' = [o EXCEPT !.upgradeEvents = @ + 1]
           \* the callback that ran created the schema
           /\ hasStore' = (o.upgradeCalls > open.upgradeCalls \/ hasStore)
    /\ dbVersion' = cfg.version
    /\ UNCHANGED <<cfg, objectStore, handles, openCalls, nCalls, call, initPromise,
                   trans, reqs, promiseVars, errorFired>>

\* getTransaction's db.transaction(stores, mode), and the operation's
\* then(trans => ...) callback up to the point where it returns its promise.
RequestOnSuccess ==
    /\ open.req = "pending"
    /\ open.needUpgrade => open.upgradeEvents = 1
    /\ cfg.version >= open.oldVersion
    /\ open' = [open EXCEPT !.req = "done", !.successEvents = @ + 1]
    /\ initPromise' = OnOpenSuccess(initPromise)
    /\ handles' = handles + 1
    /\ IF initPromise'.st # "resolved"
       THEN UNCHANGED <<trans, reqs, promiseVars>>
       ELSE IF ~hasStore
       THEN \* db.transaction throws NotFoundError inside then()
            /\ result' = PReject(result, Err("NotFoundError"))
            /\ UNCHANGED <<trans, reqs, res, promiseA, promiseB, inner, armed>>
       ELSE /\ trans' = [state |-> "active", mode |-> TransactionMode(call),
                         started |-> trans.started + 1, db |-> handles',
                         snapshot |-> objectStore]
            /\ reqs' = Place(trans', FirstRequests(call, objectStore))
            /\ SetJs(Settle([Js EXCEPT !.inner =
                               IF call.op = "storeObjects"
                               THEN [k \in 1 .. Len(call.data) |-> Pending]
                               ELSE <<>>], call))
    /\ UNCHANGED <<cfg, engineVars, openCalls, nCalls, call, errorFired>>

RequestOnError ==
    /\ open.req = "pending"
    /\ open' = [open EXCEPT !.req = "done", !.errorEvents = @ + 1]
    /\ initPromise' = OnOpenError(initPromise)
    \* then() without a rejection handler: the rejection reaches the caller
    /\ result' = IF initPromise'.st = "rejected"
                 THEN PReject(result, initPromise'.val) ELSE result
    /\ errorFired' = TRUE
    \* the upgrade transaction, if any, is rolled back
    /\ dbVersion' = open.oldVersion
    /\ hasStore' = open.oldHasStore
    /\ UNCHANGED <<cfg, objectStore, handles, openCalls, nCalls, call, trans, reqs,
                   res, promiseA, promiseB, inner, armed>>

(***************************************************************************)
(* Events of the transaction and of its requests.                          *)
(***************************************************************************)
ReqSuccess ==
    /\ trans.state = "active"
    /\ reqs # <<>>
    /\ CanSucceed(objectStore, Head(reqs))
    /\ LET r == Head(reqs)
           j == Settle(OnRequestSuccess(Js, call, r, RequestResult(objectStore, r)), call)
       IN  /\ SetJs(j)
           /\ reqs' = Tail(reqs) \o Place(trans, j.placed)
           \* a handler that throws aborts the transaction
           /\ trans' = IF j.threw THEN [trans EXCEPT !.state = "aborting"] ELSE trans
           /\ objectStore' = IF j.threw THEN trans.snapshot
                             ELSE EngineExec(objectStore, r)
    /\ UNCHANGED <<cfg, dbVersion, hasStore, handles, openCalls, nCalls, call, open,
                   initPromise, errorFired>>

\* A request fails: the error event, then the engine aborts the transaction.
ReqError ==
    /\ trans.state = "active"
    /\ reqs # <<>>
    /\ SetJs(OnErrorEvent(Js, call, Head(reqs)))
    /\ reqs' = Tail(reqs)
    /\ trans' = [trans EXCEPT !.state = "aborting"]
    /\ objectStore' = trans.snapshot
    /\ errorFired' = TRUE
    /\ UNCHANGED <<cfg, dbVersion, hasStore, handles, openCalls, nCalls, call, open,
                   initPromise>>

\* The requests still pending when the transaction aborts get an error event each.
ReqAbortError ==
    /\ trans.state = "aborting"
    /\ reqs # <<>>
    /\ SetJs(OnErrorEvent(Js, call, Head(reqs)))
    /\ reqs' = Tail(reqs)
    /\ errorFired' = TRUE
    /\ UNCHANGED <<cfg, engineVars, handles, openCalls, nCalls, call, open,
                   initPromise, trans>>

\* The abort event: no operation binds trans.onabort.
TransAbort ==
    /\ trans.state = "aborting"
    /\ reqs = <<>>
    /\ trans' = [trans EXCEPT !.state = "aborted"]
    /\ UNCHANGED <<cfg, engineVars, handles, openCalls, nCalls, call, open,
                   initPromise, reqs, promiseVars, errorFired>>

TransComplete ==
    /\ trans.state = "active"
    /\ reqs = <<>>
    /\ trans' = [trans EXCEPT !.state = "complete"]
    /\ SetJs(Settle(OnTransComplete(Js, call), call))
    /\ UNCHANGED <<cfg, engineVars, handles, openCalls, nCalls, call, open,
                   initPromise, reqs, errorFired>>

\* The commit fails (quota, I/O): an abort event and no error event.
TransCommitFail ==
    /\ trans.state = "active"
    /\ trans.mode = "readwrite"
    /\ reqs = <<>>
    /\ trans' = [trans EXCEPT !.state = "aborted"]
    /\ objectStore' = trans.snapshot
    /\ UNCHANGED <<cfg, dbVersion, hasStore, handles, openCalls, nCalls, call, open,
                   initPromise, reqs, promiseVars, errorFired>>

Next ==
    \/ \E c \in Calls, idbAvailable \in BOOLEAN : Call(c, idbAvailable)
    \/ RequestOnBlocked
    \/ \E ret \in OnVersionChangeReturns(cfg) : RequestOnUpgradeNeeded(ret)
    \/ RequestOnSuccess
    \/ RequestOnError
    \/ ReqSuccess
    \/ ReqError
    \/ ReqAbortError
    \/ TransAbort
    \/ TransComplete
    \/ TransCommitFail

Spec == Init /\ [][Next]_vars

(***************************************************************************)
(* The instance used for reading only: the open lifecycle is the same for  *)
(* every operation, and a read-only transaction has one request and no     *)
(* commit to fail.                                                         *)
(***************************************************************************)
ReadCalls == CallsOf("getObjectByKey") \cup CallsOf("getObjectsByIndex")

NextRead ==
    \/ \E c \in ReadCalls, idbAvailable \in BOOLEAN : Call(c, idbAvailable)
    \/ RequestOnBlocked
    \/ \E ret \in OnVersionChangeReturns(cfg) : RequestOnUpgradeNeeded(ret)
    \/ RequestOnSuccess
    \/ RequestOnError
    \/ ReqSuccess
    \/ ReqError
    \/ TransAbort
    \/ TransComplete

SpecRead == Init /\ [][NextRead]_vars

(***************************************************************************)
(* The instance used for storing only: storeObjects calls, whose           *)
(* transaction carries one add request per item of data.                   *)
(***************************************************************************)
StoreCalls == CallsOf("storeObjects")

NextStore ==
    \/ \E c \in StoreCalls, idbAvailable \in BOOLEAN : Call(c, idbAvailable)
    \/ RequestOnBlocked
    \/ \E ret \in OnVersionChangeReturns(cfg) : RequestOnUpgradeNeeded(ret)
    \/ RequestOnSuccess
    \/ RequestOnError
    \/ ReqSuccess
    \/ ReqError
    \/ ReqAbortError
    \/ TransAbort
    \/ TransComplete
    \/ TransCommitFail

SpecStore == Init /\ [][NextStore]_vars

(***************************************************************************)
(* Every operation on an instance with one configuration: version 1 and no *)
(* optional callback.  The database may be absent, at version 1 or ahead.  *)
(***************************************************************************)
InitOps ==
    /\ Init
    /\ cfg = [version |-> 1, onVersionChange |-> "default", onBlocked |-> "noop"]

SpecOps == InitOps /\ [][Next]_vars

TypeOK ==
    /\ result.st \in {"pending", "resolved", "rejected"}
    /\ initPromise.st \in {"pending", "resolved", "rejected"}
    /\ trans.state \in {"none", "active", "aborting", "aborted", "complete"}
    /\ objectStore \subseteq Records
    /\ Cardinality(Ids(objectStore)) = Cardinality(objectStore)

(***************************************************************************)
(* The open lifecycle.                                                     *)
(***************************************************************************)

\* C1: for the upgradeneeded event of an open, onVersionChange(db) is called
\* once and onUpgradeNeeded is invoked if and only if that call returned
\* true; it is invoked at no other time.
C1_UpgradeIffVersionChange ==
    /\ open.upgradeEvents \in {0, 1}
    /\ open.vcCalls = open.upgradeEvents
    /\ open.upgradeCalls = IF open.upgradeEvents = 1 /\ open.vcRet THEN 1 ELSE 0

C1_Witness ==
    /\ cfg.onVersionChange = "user"
    /\ open.upgradeEvents = 1
    /\ open.vcCalls = 1
    /\ ~open.vcRet
    /\ open.upgradeCalls = 0
    /\ open.successEvents = 1

\* C2: with no onVersionChange configured, an open on which the engine fires
\* upgradeneeded calls onUpgradeNeeded exactly once, and does so while the
\* promise of _init_ is pending, which it still is after the call.
C2_DefaultUpgradesOnceBeforeResolve ==
    /\ [](cfg.onVersionChange = "default" => open.upgradeCalls = open.upgradeEvents)
    /\ [][(cfg.onVersionChange = "default" /\ open'.upgradeEvents = open.upgradeEvents + 1)
            => /\ open'.upgradeCalls = open.upgradeCalls + 1
               /\ initPromise.st = "pending"
               /\ initPromise'.st = "pending"]_vars
    /\ [][(nCalls' = nCalls /\ open'.upgradeEvents = open.upgradeEvents)
            => open'.upgradeCalls = open.upgradeCalls]_vars

C2_Witness ==
    /\ cfg.onVersionChange = "default"
    /\ open.upgradeEvents = 1
    /\ open.upgradeCalls = 1
    /\ initPromise.st = "resolved"

C4_BlockedCallsBackAndKeepsPending ==
    /\ [](/\ open.blockedCalls = open.blockedEvents
          /\ open.userBlocked = IF cfg.onBlocked = "user" THEN open.blockedEvents ELSE 0)
    /\ [][open'.blockedEvents > open.blockedEvents
            => /\ open'.blockedEvents = open.blockedEvents + 1
               /\ initPromise.st = "pending"
               /\ initPromise'.st = "pending"]_vars
    /\ []((open.blockedEvents > 0 /\ open.successEvents > 0) => initPromise.st = "resolved")
    /\ []((open.blockedEvents > 0 /\ open.errorEvents > 0) => initPromise.st = "rejected")

C4_Witness ==
    /\ cfg.onBlocked = "user"
    /\ open.blockedEvents >= 2
    /\ open.userBlocked = open.blockedEvents
    /\ open.successEvents = 1
    /\ initPromise.st = "resolved"

\* C5: indexedDB.open is called again only when the instance holds no open
\* handle, so the instance never holds more than one.
C5_HandleReused ==
    /\ [][openCalls' > openCalls => handles = 0]_vars
    /\ [](handles <= 1)

(***************************************************************************)
(* The public operations.                                                  *)
(***************************************************************************)

\* C6: once the engine fired an error event on a request of the operation
\* or on its transaction, the promise the operation returned is rejected.
C6_ErrorEventRejects ==
    (call.op \in PublicOps /\ errorFired) => result.st = "rejected"

\* The ids, and the index values, of the records of a resolved array.
IdAt(k) == result.val.a[k].o.id
IdxAt(k) == result.val.a[k].o.idx
ResolvedArray == result.st = "resolved" /\ result.val.t = "array"

\* C7: getObjects resolves with the records in ascending key order unless
\* reverse is true, and then in descending key order.
C7_GetObjectsOrder ==
    (call.op = "getObjects" /\ ResolvedArray) =>
        \A k \in 1 .. Len(result.val.a) - 1 :
            IF call.reverse THEN IdAt(k) > IdAt(k + 1) ELSE IdAt(k) < IdAt(k + 1)

\* C8: getObjectsByIndex resolves with exactly the records whose index value
\* is in the range, in ascending index order (equal index values in
\* ascending key order) unless reverse is true, and then in the reverse of
\* that order.
C8_GetObjectsByIndexOrder ==
    (call.op = "getObjectsByIndex" /\ result.st = "resolved") =>
        /\ result.val.t = "array"
        /\ {result.val.a[k] : k \in 1 .. Len(result.val.a)}
              = {Obj(r) : r \in {x \in objectStore : x.idx \in call.idxRange}}
        /\ \A k \in 1 .. Len(result.val.a) - 1 :
              IF call.reverse
              THEN IdxAt(k) > IdxAt(k + 1)
                      \/ (IdxAt(k) = IdxAt(k + 1) /\ IdAt(k) > IdAt(k + 1))
              ELSE IdxAt(k) < IdxAt(k + 1)
                      \/ (IdxAt(k) = IdxAt(k + 1) /\ IdAt(k) < IdAt(k + 1))

C8_Witness ==
    /\ call.op = "getObjectsByIndex"
    /\ call.reverse
    /\ ResolvedArray
    /\ Len(result.val.a) = 2
    /\ IdxAt(1) > IdxAt(2)
    /\ IdAt(1) < IdAt(2)

\* C9: once the transaction of updateObjectsByIndex with allMatches = true
\* completed, every record that matched indexVal is stored with every
\* name/value of params applied, and the promise is resolved with a flat
\* array of exactly those updated records.
C9_AllMatchesUpdated ==
    LET matches == {r \in trans.snapshot : r.idx = call.indexVal}
        names == {call.params[k].name : k \in 1 .. Len(call.params)}
        updated == {u \in Records : \E r \in matches :
                       /\ u.id = r.id
                       /\ \A k \in 1 .. Len(call.params) :
                             u[call.params[k].name] = call.params[k].value
                       /\ \A f \in {"idx", "val"} \ names : u[f] = r[f]}
    IN  (/\ call.op = "updateObjectsByIndex"
         /\ call.allMatches
         /\ trans.state = "complete"
         /\ matches # {})
        => /\ updated \subseteq objectStore
           /\ result.st = "resolved"
           /\ result.val.t = "array"
           /\ Len(result.val.a) = Cardinality(matches)
           /\ {result.val.a[k] : k \in 1 .. Len(result.val.a)} = {Obj(u) : u \in updated}

\* C10: once the transaction of updateObjectsByIndex has finished, completed
\* or aborted, the promise the operation returned is settled.
C10_UpdateSettles ==
    (call.op = "updateObjectsByIndex" /\ trans.state \in {"complete", "aborted"})
        => result.st # "pending"

\* The items of data as the values the promise carries.
DataValue == Arr([k \in 1 .. Len(call.data) |-> Obj(call.data[k])])

\* C11: storeObjects resolves with the data array it was given, and is
\* resolved only once the complete event of the transaction fired and every
\* add request succeeded (every item is stored); while the transaction is
\* still active, whatever requests succeeded, the promise is not resolved.
C11_StoreResolvesAfterComplete ==
    (call.op = "storeObjects" /\ result.st = "resolved") =>
        /\ result.val = DataValue
        /\ trans.state = "complete"
        /\ promiseA.st = "resolved"
        /\ Len(inner) = Len(call.data)
        /\ \A k \in 1 .. Len(inner) : inner[k].st = "resolved"
        /\ \A k \in 1 .. Len(call.data) : call.data[k] \in objectStore

C11_Witness ==
    /\ call.op = "storeObjects"
    /\ Len(call.data) = 2
    /\ result.st = "resolved"
    /\ trans.state = "complete"

\* Every add succeeded and the transaction is still active: not resolved yet.
C11_WitnessPending ==
    /\ call.op = "storeObjects"
    /\ Len(call.data) = 2
    /\ trans.state = "active"
    /\ promiseB.st = "resolved"
    /\ result.st = "pending"

\* An add request of the storeObjects call in flight got an error event.
AddFailed == call.op = "storeObjects" /\ trans.started = 1 /\ errorFired

\* C12 as stated: if an add request of a storeObjects call fails, the
\* promise is rejected and, once the transaction aborted, none of the items
\* of the call is in the store.
C12_NoItemPresentAfterFailure ==
    AddFailed =>
        /\ result.st = "rejected"
        /\ trans.state = "aborted" =>
              \A k \in 1 .. Len(call.data) : call.data[k] \notin objectStore

\* C12 amended: if an add request of a storeObjects call fails, the promise
\* is rejected, the transaction aborts, and the store is left exactly as it
\* was before the call: the call adds none of its items (an item that was
\* stored before the call is still there).
C12_StoreUnchangedAfterFailure ==
    AddFailed =>
        /\ result.st = "rejected"
        /\ trans.state \in {"aborting", "aborted"}
        /\ objectStore = trans.snapshot

C12_Witness ==
    /\ AddFailed
    /\ Len(call.data) = 2
    /\ inner[1].st = "resolved"
    /\ inner[2].st = "rejected"
    /\ trans.state = "aborted"
    /\ result.st = "rejected"
    /\ call.data[1] \notin objectStore

\* The call got its database handle and the store exists.
GotHandle == open.successEvents = 1 /\ hasStore

====
